---- MODULE Spec2Model ----
(***************************************************************************)
(* WEBPROJ (webproj/api.py): the pipeline builder OptimusPrime, the        *)
(* process-wide cache TransformerFactory, the coordinate executor          *)
(* OptimusPrime.transform and the /trans/ request handlers that call them. *)
(*                                                                         *)
(* Strings the code inspects (identifiers: upper(), split(":"), dictionary *)
(* keys) are sequences of one-character strings.  Coordinate components    *)
(* are tagged values: a number, Python's None, or an infinity.             *)
(***************************************************************************)
EXTENDS Integers, Sequences, FiniteSets, TLC

\* ------------------------------------------------------------------ bounds
\* threads of the WSGI server that serve requests
NumThreads == 2
\* requests started in one behaviour of Spec and SpecSeq
MaxRequests == 3
\* requests started in one behaviour of SpecBuild
BuildCalls == 1

Threads == 1..NumThreads

\* ------------------------------------------------------------- identifiers
EPSG_25832 == <<"E","P","S","G",":","2","5","8","3","2">>
epsg_25832 == <<"e","p","s","g",":","2","5","8","3","2">>
EPSG_4326 == <<"E","P","S","G",":","4","3","2","6">>
EPSG_4258 == <<"E","P","S","G",":","4","2","5","8">>
EPSG_4909 == <<"E","P","S","G",":","4","9","0","9">>
DK_S34J == <<"D","K",":","S","3","4","J">>
GL_X == <<"G","L",":","X">>
XX_1 == <<"X","X",":","1">>

\* the identifiers requests carry in SpecBuild
ReqIds ==
    {EPSG_25832, epsg_25832, EPSG_4326, EPSG_4258, DK_S34J, GL_X, XX_1}
\* the identifiers requests carry in Spec and SpecSeq
CacheSrcIds == {EPSG_25832, epsg_25832, XX_1}
CacheDstIds == {EPSG_4326, EPSG_4258}

LowerCase == <<"a","b","c","d","e","f","g","h","i","j","k","l","m",
               "n","o","p","q","r","s","t","u","v","w","x","y","z">>
UpperCase == <<"A","B","C","D","E","F","G","H","I","J","K","L","M",
               "N","O","P","Q","R","S","T","U","V","W","X","Y","Z">>

\* str.upper(), one character
UpperChar(c) ==
    IF \E i \in DOMAIN LowerCase : LowerCase[i] = c
    THEN UpperCase[CHOOSE i \in DOMAIN LowerCase : LowerCase[i] = c]
    ELSE c

\* str.upper()
Upper(s) == [i \in DOMAIN s |-> UpperChar(s[i])]

\* s.split(":")[0]: the text before the first colon, all of s without one
SplitFirst(s) ==
    IF \E i \in DOMAIN s : s[i] = ":"
    THEN SubSeq(s, 1, (CHOOSE i \in DOMAIN s :
                          s[i] = ":" /\ \A j \in 1..(i - 1) : s[j] # ":") - 1)
    ELSE s

EPSG == <<"E","P","S","G">>
DK == <<"D","K">>
GL == <<"G","L">>

\* ---------------------------------------------------------------- catalog
\* data.json: identifier -> metadata; only "country" is read by the builder
CRS_LIST ==
    (EPSG_25832 :> [country |-> "DK"]) @@
    (EPSG_4258 :> [country |-> "DK"]) @@
    (DK_S34J :> [country |-> "DK"]) @@
    (EPSG_4909 :> [country |-> "GL"]) @@
    (GL_X :> [country |-> "GL"]) @@
    (EPSG_4326 :> [country |-> "Global"])

\* AreaOfInterest(west, south, east, north), in tenths of a degree
AOI ==
    ("DK" :> <<30, 545, 155, 580>>) @@
    ("GL" :> <<-750, 560, 85, 875>>)

\* ----------------------------------------------------------------- engine
\* the value of an attribute that holds no stage (self.pre_pipeline = None)
NoStage == [kind |-> "None", args |-> << >>]

\* what the engine's error carries; the builder never copies it into a message
EngineErrorText == "engine error text"

\* the textual pipeline of the pre-stage (f-string of lines 94-99)
PrePipelineText(src) ==
    <<"+proj=pipeline ", "+step +inv +init=", src, " ",
      "+step +proj=unitconvert +xy_in=rad +xy_out=deg ",
      "+step +proj=axisswap +order=2,1">>

\* the textual pipeline of the post-stage (f-string of lines 123-128)
PostPipelineText(dst) ==
    <<"+proj=pipeline ", "+step +proj=axisswap +order=2,1 ",
      "+step +proj=unitconvert +xy_in=deg +xy_out=rad ",
      "+step +init=", dst>>

\* Transformer.from_pipeline(pipeline): the handle it returns
FromPipeline(text) == [kind |-> "from_pipeline", args |-> <<text>>]

\* Transformer.from_crs(src, dst_hub, area_of_interest=region): the handle
FromCrs(src, dst_hub, region) == [kind |-> "from_crs", args |-> <<src, dst_hub, region>>]

\* what the engine may answer to the three constructor calls of one build:
\* TRUE when it constructs the stage, FALSE when it raises
EngineAnswers == [pre : BOOLEAN, hub : BOOLEAN, post : BOOLEAN]

\* ---------------------------------------------------------------- builder
\* UnknownCheck with the destination looked up before the source
UnknownCheck_dstFirst(src, dst) ==
    IF dst \notin DOMAIN CRS_LIST THEN "dst"
    ELSE IF src \notin DOMAIN CRS_LIST THEN "src"
    ELSE "ok"

\* lines 67-71: which identifier is reported unknown, the source first
UnknownCheck(src, dst) ==
    IF src \notin DOMAIN CRS_LIST THEN "src"
    ELSE IF dst \notin DOMAIN CRS_LIST THEN "dst"
    ELSE "ok"

\* Compatible with the exemption given only to a Global source
Compatible_srcGlobalOnly(src_region, dst_region) ==
    ~(src_region # dst_region /\ src_region # "Global")

\* line 75, negated: the regions may be transformed between
Compatible(src_region, dst_region) ==
    ~(src_region # dst_region /\ "Global" \notin {src_region, dst_region})

\* lines 79-84: the key looked up in AOI
AoiKey(src_region, dst_region) ==
    IF src_region = dst_region THEN src_region
    ELSE IF src_region = "Global" THEN dst_region
    ELSE src_region

\* lines 90-91: non_epsg_src, non_epsg_dst
NonEpsg(auth) == auth # EPSG

\* lines 102-103: the source identifier the later stages use
SrcSubst(src, src_auth) ==
    IF NonEpsg(src_auth) /\ src_auth = DK THEN EPSG_4258 ELSE src

\* NeedHub without the comparison of the two sides' authorities
NeedHub_idsOnly(src, dst, non_epsg_src, non_epsg_dst) ==
    src # dst

\* line 109: whether the hub stage is built
NeedHub(src, dst, non_epsg_src, non_epsg_dst) ==
    src # dst \/ non_epsg_src # non_epsg_dst

\* lines 65, 110-113: the destination of the hub stage (the later of the two
\* assignments wins)
DstHub(dst, dst_auth) ==
    IF dst_auth = GL THEN EPSG_4909
    ELSE IF dst_auth = DK THEN EPSG_4258
    ELSE dst

\* the outcome of one OptimusPrime(src, dst): the exception that left __init__
\* ("none": the object was constructed), the attributes of self at that
\* moment, and the engine constructors called so far, in order
BuildResult(exc, error, msg, pre, epsg, post, calls) ==
    [exc |-> exc, error |-> error, msg |-> msg,
     pre_pipeline |-> pre, epsg_pipeline |-> epsg, post_pipeline |-> post,
     calls |-> calls]

\* the handler of lines 119-120 letting the engine's error through
InvalidCrsError_reraise(pre, calls) ==
    BuildResult("RuntimeError", "none", <<EngineErrorText>>,
                pre, NoStage, NoStage, calls)

\* lines 119-120: except RuntimeError: raise ValueError("Invalid CRS identifier")
InvalidCrsError(pre, calls) ==
    BuildResult("ValueError", "InvalidCRS", <<"Invalid CRS identifier">>,
                pre, NoStage, NoStage, calls)

\* OptimusPrime.__init__(src, dst); eng is what the engine answers
OptimusPrime(src0, dst0, eng) ==
    LET src == Upper(src0)
        dst == Upper(dst0)
        unknown == UnknownCheck(src, dst)
    IN
    IF unknown = "src" THEN
        BuildResult("ValueError", "UnknownCRS",
                    <<"Unknown source CRS identifier: ", src>>,
                    NoStage, NoStage, NoStage, << >>)
    ELSE IF unknown = "dst" THEN
        BuildResult("ValueError", "UnknownCRS",
                    <<"Unknown destination CRS identifier: ", dst>>,
                    NoStage, NoStage, NoStage, << >>)
    ELSE
    LET src_region == CRS_LIST[src].country
        dst_region == CRS_LIST[dst].country
    IN
    IF ~Compatible(src_region, dst_region) THEN
        BuildResult("ValueError", "IncompatibleRegion",
                    <<"CRS's are not compatible across countries">>,
                    NoStage, NoStage, NoStage, << >>)
    ELSE IF AoiKey(src_region, dst_region) \notin DOMAIN AOI THEN
        BuildResult("KeyError", "none", <<AoiKey(src_region, dst_region)>>,
                    NoStage, NoStage, NoStage, << >>)
    ELSE
    LET region == AOI[AoiKey(src_region, dst_region)]
        src_auth == SplitFirst(src)
        dst_auth == SplitFirst(dst)
        non_epsg_src == NonEpsg(src_auth)
        non_epsg_dst == NonEpsg(dst_auth)
        pre == IF non_epsg_src THEN FromPipeline(PrePipelineText(src)) ELSE NoStage
        calls1 == IF non_epsg_src THEN <<pre>> ELSE << >>
        src2 == SrcSubst(src, src_auth)
        hub == NeedHub(src2, dst, non_epsg_src, non_epsg_dst)
        epsg == IF hub THEN FromCrs(src2, DstHub(dst, dst_auth), region) ELSE NoStage
        calls2 == IF hub THEN Append(calls1, epsg) ELSE calls1
        post == IF non_epsg_dst THEN FromPipeline(PostPipelineText(dst)) ELSE NoStage
        calls3 == IF non_epsg_dst THEN Append(calls2, post) ELSE calls2
    IN
    IF non_epsg_src /\ ~eng.pre THEN
        BuildResult("RuntimeError", "none", <<EngineErrorText>>,
                    NoStage, NoStage, NoStage, calls1)
    ELSE IF hub /\ ~eng.hub THEN
        InvalidCrsError(pre, calls2)
    ELSE IF non_epsg_dst /\ ~eng.post THEN
        BuildResult("RuntimeError", "none", <<EngineErrorText>>,
                    pre, epsg, NoStage, calls3)
    ELSE
        BuildResult("none", "none", << >>, pre, epsg, post, calls3)

\* ------------------------------------------------------------ coordinates
\* a coordinate component: a number, None, float("inf") or float("-inf")
Num(n) == [tag |-> "num", n |-> n]
None == [tag |-> "None", n |-> 0]
PosInf == [tag |-> "inf", n |-> 1]
NegInf == [tag |-> "inf", n |-> -1]

\* the name `out` before its first assignment in transform
Unbound == <<[tag |-> "unbound", n |-> 0]>>

\* _make_4d that fills the time of a two-component tuple with zero
_make_4d_zeroTime(coord) ==
    IF Len(coord) = 2 THEN <<coord[1], coord[2], None, Num(0)>>
    ELSE IF Len(coord) = 3 THEN <<coord[1], coord[2], coord[3], None>>
    ELSE IF Len(coord) = 4 THEN <<coord[1], coord[2], coord[3], coord[4]>>
    ELSE << >>

\* _make_4d(coord)
_make_4d(coord) ==
    IF Len(coord) = 2 THEN <<coord[1], coord[2], None, None>>
    ELSE IF Len(coord) = 3 THEN <<coord[1], coord[2], coord[3], None>>
    ELSE IF Len(coord) = 4 THEN <<coord[1], coord[2], coord[3], coord[4]>>
    ELSE << >>

\* the coordinates of the three routes, as the handlers pass them to transform:
\* _make_4d((v1, v2)), _make_4d((v1, v2, v3)) and (v1, v2, v3, v4)
HandlerCoords ==
    {_make_4d(<<Num(1), Num(2)>>),
     _make_4d(<<Num(1), Num(2), Num(3)>>),
     <<Num(1), Num(2), Num(3), Num(4)>>}

\* what a stage adds to a number it converts (the engine's arithmetic is not
\* modelled: the amounts only tell the stages apart)
StageShift(stage) ==
    IF stage = "pre" THEN 10 ELSE IF stage = "hub" THEN 100 ELSE 1000

\* one component converted by a stage
Converted(stage, c) ==
    IF c.tag = "num" THEN Num(c.n + StageShift(stage)) ELSE c

\* stage.transform(v1, v2, v3, v4): the tuples the engine may return. It
\* returns as many components as it was given leading non-None ones, or all
\* four (a stage may populate height and time); any one component may be an
\* infinity when the input is outside the stage's domain, and an infinite
\* input component comes back infinite or as a number of the engine's choice.
EngineTransform(stage, v) ==
    LET given == IF v[3] = None THEN 2 ELSE IF v[4] = None THEN 3 ELSE 4
        plain(n, keep) == [i \in 1..n |->
                        IF v[i] = None \/ (v[i].tag = "inf" /\ ~keep)
                        THEN Num(StageShift(stage))
                        ELSE Converted(stage, v[i])]
        lens == {given, 4}
    IN  {plain(n, keep) : n \in lens, keep \in BOOLEAN}
        \cup {[plain(n, TRUE) EXCEPT ![1] = PosInf] : n \in lens}
        \cup {[plain(n, TRUE) EXCEPT ![n] = NegInf] : n \in lens}

\* line 148: float("inf") in out or float("-inf") in out
HasInf(out) == \E i \in DOMAIN out : out[i] = PosInf \/ out[i] = NegInf

\* ------------------------------------------------------------------ state
VARIABLES
    transformers,   \* TransformerFactory.transformers: src -> (dst -> object)
    nobjs,          \* OptimusPrime objects constructed so far (object identity)
    builds,         \* (src, dst) -> times OptimusPrime(src, dst) was called
    nreq,           \* requests started so far
    pc,             \* per thread: the line its request is at
    req,            \* per thread: the arguments of the handler
    built,          \* per thread: the outcome of its OptimusPrime(src, dst)
    transformer,    \* per thread: what TransformerFactory.create returned
    v,              \* per thread: (v1, v2, v3, v4) of transform
    out,            \* per thread: `out` of transform
    trace,          \* per thread: the stages run, each with input and output
    response        \* per thread: what the handler answered

vars == <<transformers, nobjs, builds, nreq, pc, req, built, transformer,
          v, out, trace, response>>

\* an empty dict
EmptyDict == << >>

NoRequest == [src |-> << >>, dst |-> << >>, coord |-> << >>]
NoBuild == [id |-> 0, res |-> BuildResult("none", "none", << >>,
                                          NoStage, NoStage, NoStage, << >>)]
NoObject == [id |-> 0, pre_pipeline |-> NoStage, epsg_pipeline |-> NoStage,
             post_pipeline |-> NoStage]
NoResponse == [status |-> 0, error |-> "none", result |-> << >>]

\* the object a successful OptimusPrime(src, dst) leaves
ObjectOf(b) ==
    [id |-> b.id, pre_pipeline |-> b.res.pre_pipeline,
     epsg_pipeline |-> b.res.epsg_pipeline,
     post_pipeline |-> b.res.post_pipeline]

\* d[k] = val on a dict d
DictSet(d, k, val) == [x \in (DOMAIN d) \cup {k} |-> IF x = k THEN val ELSE d[x]]

\* d.get(k, 0)
CountOf(d, k) == IF k \in DOMAIN d THEN d[k] ELSE 0

\* the module has just been imported: `transformers = {}`, no request yet
Init ==
    /\ transformers = EmptyDict
    /\ nobjs = 0
    /\ builds = EmptyDict
    /\ nreq = 0
    /\ pc = [t \in Threads |-> "idle"]
    /\ req = [t \in Threads |-> NoRequest]
    /\ built = [t \in Threads |-> NoBuild]
    /\ transformer = [t \in Threads |-> NoObject]
    /\ v = [t \in Threads |-> << >>]
    /\ out = [t \in Threads |-> Unbound]
    /\ trace = [t \in Threads |-> << >>]
    /\ response = [t \in Threads |-> NoResponse]

\* the handler is entered: Transformation2D/3D/4D.get(src, dst, v1, v2, ...)
Start(t, s, d, c) ==
    /\ pc[t] = "idle"
    /\ pc' = [pc EXCEPT ![t] = "l161"]
    /\ req' = [req EXCEPT ![t] = [src |-> s, dst |-> d, coord |-> c]]
    /\ nreq' = nreq + 1
    /\ UNCHANGED <<transformers, nobjs, builds, built, transformer, v, out,
                   trace, response>>

\* the handler leaves with the exception exc: ValueError is answered 404
\* (except ValueError: abort(404)), any other exception escapes the handler
Abort(t, exc, error) ==
    /\ pc' = [pc EXCEPT ![t] = "done"]
    /\ response' = [response EXCEPT ![t] =
            [status |-> IF exc = "ValueError" THEN 404 ELSE 500,
             error |-> IF exc = "ValueError" THEN error ELSE exc,
             result |-> << >>]]

\* line 161: if src not in cls.transformers.keys()
L161(t) ==
    /\ pc[t] = "l161"
    /\ pc' = [pc EXCEPT ![t] =
            IF req[t].src \notin DOMAIN transformers THEN "l162" ELSE "l164"]
    /\ UNCHANGED <<transformers, nobjs, builds, nreq, req, built, transformer,
                   v, out, trace, response>>

\* line 162: cls.transformers[src] = {}
L162(t) ==
    /\ pc[t] = "l162"
    /\ transformers' = DictSet(transformers, req[t].src, EmptyDict)
    /\ pc' = [pc EXCEPT ![t] = "l164"]
    /\ UNCHANGED <<nobjs, builds, nreq, req, built, transformer, v, out, trace,
                   response>>

\* L164 that takes every request for a miss
L164_alwaysMiss(t) ==
    /\ pc[t] = "l164"
    /\ pc' = [pc EXCEPT ![t] = "l165"]
    /\ UNCHANGED <<transformers, nobjs, builds, nreq, req, built, transformer,
                   v, out, trace, response>>

\* line 164: if dst not in cls.transformers[src].keys()
L164(t) ==
    /\ pc[t] = "l164"
    /\ pc' = [pc EXCEPT ![t] =
            IF req[t].dst \notin DOMAIN transformers[req[t].src]
            THEN "l165" ELSE "l167"]
    /\ UNCHANGED <<transformers, nobjs, builds, nreq, req, built, transformer,
                   v, out, trace, response>>

\* line 165, right-hand side: OptimusPrime(src, dst)
L165_build(t) ==
    /\ pc[t] = "l165"
    /\ builds' = DictSet(builds, <<req[t].src, req[t].dst>>,
                         CountOf(builds, <<req[t].src, req[t].dst>>) + 1)
    /\ \E eng \in EngineAnswers :
         LET res == OptimusPrime(req[t].src, req[t].dst, eng) IN
         IF res.exc = "none"
         THEN /\ nobjs' = nobjs + 1
              /\ built' = [built EXCEPT ![t] = [id |-> nobjs + 1, res |-> res]]
              /\ pc' = [pc EXCEPT ![t] = "l165_store"]
              /\ UNCHANGED response
         ELSE /\ built' = [built EXCEPT ![t] = [id |-> 0, res |-> res]]
              /\ Abort(t, res.exc, res.error)
              /\ UNCHANGED nobjs
    /\ UNCHANGED <<transformers, nreq, req, transformer, v, out, trace>>

\* line 165, the assignment: cls.transformers[src][dst] = <the new object>
L165_store(t) ==
    /\ pc[t] = "l165_store"
    /\ transformers' = DictSet(transformers, req[t].src,
            DictSet(transformers[req[t].src], req[t].dst, ObjectOf(built[t])))
    /\ pc' = [pc EXCEPT ![t] = "l167"]
    /\ UNCHANGED <<nobjs, builds, nreq, req, built, transformer, v, out, trace,
                   response>>

\* line 167: return cls.transformers[src][dst]; then transform is entered
\* with (v1, v2, v3, v4) = coord (line 135)
L167(t) ==
    /\ pc[t] = "l167"
    /\ IF req[t].dst \in DOMAIN transformers[req[t].src]
       THEN /\ transformer' = [transformer EXCEPT ![t] =
                    transformers[req[t].src][req[t].dst]]
            /\ v' = [v EXCEPT ![t] = req[t].coord]
            /\ pc' = [pc EXCEPT ![t] = "l136"]
            /\ UNCHANGED response
       ELSE /\ Abort(t, "KeyError", "none")
            /\ UNCHANGED <<transformer, v>>
    /\ UNCHANGED <<transformers, nobjs, builds, nreq, req, built, out, trace>>

\* one `if self.<stage>_pipeline:` block of transform (lines 136-146)
RunStage(t, stage, handle, next) ==
    /\ IF handle # NoStage
       THEN \E o \in EngineTransform(stage, v[t]) :
              /\ out' = [out EXCEPT ![t] = o]
              /\ v' = [v EXCEPT ![t] = _make_4d(o)]
              /\ trace' = [trace EXCEPT ![t] =
                    Append(@, [stage |-> stage, input |-> v[t], output |-> o])]
       ELSE UNCHANGED <<out, v, trace>>
    /\ pc' = [pc EXCEPT ![t] = next]
    /\ UNCHANGED <<transformers, nobjs, builds, nreq, req, built, transformer,
                   response>>

\* lines 136-138
L136(t) ==
    /\ pc[t] = "l136"
    /\ RunStage(t, "pre", transformer[t].pre_pipeline, "l140")

\* lines 140-142
L140(t) ==
    /\ pc[t] = "l140"
    /\ RunStage(t, "hub", transformer[t].epsg_pipeline, "l144")

\* lines 144-146
L144(t) ==
    /\ pc[t] = "l144"
    /\ RunStage(t, "post", transformer[t].post_pipeline, "l148")

\* lines 148-153 and the handler's return
L148(t) ==
    /\ pc[t] = "l148"
    /\ IF out[t] = Unbound THEN Abort(t, "UnboundLocalError", "none")
       ELSE IF HasInf(out[t]) THEN Abort(t, "ValueError", "OutOfDomain")
       ELSE /\ pc' = [pc EXCEPT ![t] = "done"]
            /\ response' = [response EXCEPT ![t] =
                    [status |-> 200, error |-> "none", result |-> v[t]]]
    /\ UNCHANGED <<transformers, nobjs, builds, nreq, req, built, transformer,
                   v, out, trace>>

\* the response has been sent; the thread waits for its next request
Finish(t) ==
    /\ pc[t] = "done"
    /\ pc' = [pc EXCEPT ![t] = "idle"]
    /\ req' = [req EXCEPT ![t] = NoRequest]
    /\ built' = [built EXCEPT ![t] = NoBuild]
    /\ transformer' = [transformer EXCEPT ![t] = NoObject]
    /\ v' = [v EXCEPT ![t] = << >>]
    /\ out' = [out EXCEPT ![t] = Unbound]
    /\ trace' = [trace EXCEPT ![t] = << >>]
    /\ response' = [response EXCEPT ![t] = NoResponse]
    /\ UNCHANGED <<transformers, nobjs, builds, nreq>>

\* the request of thread t advances by one step
Step(t) ==
    \/ L161(t)
    \/ L162(t)
    \/ L164(t)
    \/ L165_build(t)
    \/ L165_store(t)
    \/ L167(t)
    \/ L136(t)
    \/ L140(t)
    \/ L144(t)
    \/ L148(t)
    \/ Finish(t)

\* the coordinate of the requests of Spec and SpecSeq
CacheCoords == {_make_4d(<<Num(1), Num(2)>>)}

\* no request is being served
Quiet == \A u \in Threads : pc[u] = "idle"

\* requests are served concurrently, their steps interleaved
StartAny(t) ==
    /\ nreq < MaxRequests
    /\ \E s \in CacheSrcIds, d \in CacheDstIds, c \in CacheCoords : Start(t, s, d, c)

Next == \E t \in Threads : StartAny(t) \/ Step(t)

Spec == Init /\ [][Next]_vars

\* requests are served one after the other
StartSeq(t) ==
    /\ Quiet
    /\ StartAny(t)

NextSeq == \E t \in Threads : StartSeq(t) \/ Step(t)

SpecSeq == Init /\ [][NextSeq]_vars

\* single requests over every identifier and every route, one after the
\* other, all served by the first thread
StartBuild(t) ==
    /\ t = 1
    /\ Quiet
    /\ nreq < BuildCalls
    /\ \E s \in ReqIds, d \in ReqIds, c \in HandlerCoords : Start(t, s, d, c)

NextBuild == \E t \in Threads : StartBuild(t) \/ Step(t)

SpecBuild == Init /\ [][NextBuild]_vars

\* ------------------------------------------------------------- properties
\* thread t has called OptimusPrime(src, dst) in its current request
Built(t) == built[t].id > 0 \/ built[t].res.exc # "none"

Catalogued(id) == Upper(id) \in DOMAIN CRS_LIST

RegionOf(id) == CRS_LIST[Upper(id)].country

AuthOf(id) == SplitFirst(Upper(id))

\* C7: build fails with UnknownCRS whenever the uppercased src is not in the
\* catalog, and whenever the uppercased dst is not in the catalog, whatever the
\* other identifier is; the source is checked first (an unknown source is the
\* one reported), and no engine stage has been constructed.
C7_UnknownCRS ==
    \A t \in Threads :
        (Built(t) /\ (~Catalogued(req[t].src) \/ ~Catalogued(req[t].dst))) =>
            /\ built[t].res.exc = "ValueError"
            /\ built[t].res.error = "UnknownCRS"
            /\ built[t].res.calls = << >>
            /\ built[t].res.msg[1] =
                 (IF ~Catalogued(req[t].src)
                  THEN "Unknown source CRS identifier: "
                  ELSE "Unknown destination CRS identifier: ")
            /\ built[t].res.msg[2] =
                 (IF ~Catalogued(req[t].src)
                  THEN Upper(req[t].src) ELSE Upper(req[t].dst))
            /\ response[t].status = 404

\* a build with a catalogued lower-case source and an unknown destination
C7_Witness ==
    \E t \in Threads :
        /\ Built(t)
        /\ req[t].src = epsg_25832
        /\ req[t].dst = XX_1
        /\ built[t].res.error = "UnknownCRS"

\* C8: for two catalogued identifiers build fails with IncompatibleRegion if
\* and only if their regions differ and neither region is Global.
C8_IncompatibleRegion ==
    \A t \in Threads :
        (Built(t) /\ Catalogued(req[t].src) /\ Catalogued(req[t].dst)) =>
            ((built[t].res.error = "IncompatibleRegion")
             <=> (/\ RegionOf(req[t].src) # RegionOf(req[t].dst)
                  /\ RegionOf(req[t].src) # "Global"
                  /\ RegionOf(req[t].dst) # "Global"))

\* a Danish source and a Greenlandic destination are refused
C8_Witness ==
    \E t \in Threads :
        /\ Built(t)
        /\ req[t].src = EPSG_25832
        /\ req[t].dst = GL_X
        /\ built[t].res.error = "IncompatibleRegion"
        /\ response[t].status = 404

\* C10: in every successfully built pipeline the pre-stage is present iff the
\* source authority is not EPSG, the post-stage iff the destination authority
\* is not EPSG, and the hub-stage iff the source identifier after substitution
\* differs from the destination identifier or exactly one side is non-EPSG.
C10_StagePresence ==
    \A t \in Threads :
        (Built(t) /\ built[t].res.exc = "none") =>
            LET s == Upper(req[t].src)
                d == Upper(req[t].dst)
                substituted == IF AuthOf(s) = DK THEN EPSG_4258 ELSE s
            IN  /\ (built[t].res.pre_pipeline # NoStage) <=> (AuthOf(s) # EPSG)
                /\ (built[t].res.post_pipeline # NoStage) <=> (AuthOf(d) # EPSG)
                /\ (built[t].res.epsg_pipeline # NoStage)
                   <=> (substituted # d \/ ((AuthOf(s) # EPSG) # (AuthOf(d) # EPSG)))

\* DK:S34J to EPSG:4258: after substitution the source is the destination,
\* and the hub stage is built because only the source is non-EPSG
C10_Witness ==
    \E t \in Threads :
        /\ Built(t)
        /\ built[t].res.exc = "none"
        /\ req[t].src = DK_S34J
        /\ req[t].dst = EPSG_4258
        /\ built[t].res.pre_pipeline # NoStage
        /\ built[t].res.epsg_pipeline # NoStage
        /\ built[t].res.post_pipeline = NoStage
        /\ pc[t] = "done"

\* a pipeline is stored under transformers[s][d]
Stored(s, d) == s \in DOMAIN transformers /\ d \in DOMAIN transformers[s]

\* C1: when requests are served one after the other, the builder is invoked
\* for a pair only while nothing is stored for it, the pipeline of a successful
\* build is stored under transformers[src][dst] and is what that call returns,
\* a stored pipeline is never replaced or removed, and every call returns the
\* pipeline stored for its pair; so a later call for the pair returns the
\* stored pipeline without invoking the builder again.
C1_BuildOnce ==
    [][ /\ \A p \in DOMAIN builds' :
             CountOf(builds', p) # CountOf(builds, p) => ~Stored(p[1], p[2])
        /\ \A s \in DOMAIN transformers :
             /\ s \in DOMAIN transformers'
             /\ \A d \in DOMAIN transformers[s] :
                  /\ d \in DOMAIN transformers'[s]
                  /\ transformers'[s][d] = transformers[s][d]
        /\ \A t \in Threads :
             /\ (pc[t] = "l165_store" /\ pc'[t] # "l165_store") =>
                   /\ Stored(req[t].src, req[t].dst)'
                   /\ transformers'[req[t].src][req[t].dst] = ObjectOf(built[t])
             /\ (pc[t] = "l167" /\ pc'[t] # "l167") =>
                   /\ Stored(req[t].src, req[t].dst)
                   /\ transformer'[t] = transformers[req[t].src][req[t].dst]
                   /\ built[t].id > 0 => transformer'[t].id = built[t].id
      ]_vars

\* a later call for a pair built exactly once has returned the stored pipeline
\* without a build of its own
C1_Witness ==
    \E t \in Threads :
        /\ pc[t] = "done"
        /\ ~Built(t)
        /\ transformer[t].id > 0
        /\ CountOf(builds, <<req[t].src, req[t].dst>>) = 1
        /\ transformer[t] = transformers[req[t].src][req[t].dst]
        /\ response[t].status = 200

\* C2: for a fixed (src, dst) pair every successful TransformerFactory.create
\* returns the same pipeline instance, also when first requests for the pair
\* are served concurrently: two requests for one pair never hold different
\* instances.
C2_SameInstance ==
    \A t, u \in Threads :
        (/\ transformer[t].id > 0
         /\ transformer[u].id > 0
         /\ req[t].src = req[u].src
         /\ req[t].dst = req[u].dst) => transformer[t].id = transformer[u].id

\* C3: a create call that has stored its pipeline finds it when it reads it
\* back to return it, whatever a concurrent request for another destination
\* of the same source does meanwhile.
C3_EntryKept ==
    \A t \in Threads :
        (/\ pc[t] = "l167"
         /\ \A u \in Threads \ {t} :
               \/ req[u] = NoRequest
               \/ (req[u].src = req[t].src /\ req[u].dst # req[t].dst))
        => Stored(req[t].src, req[t].dst)

\* the four errors a request may be refused with
ClientErrors == {"UnknownCRS", "IncompatibleRegion", "InvalidCRS", "OutOfDomain"}

\* C4: every transformation request ends either with the full 4-tuple result
\* or with one of UnknownCRS, IncompatibleRegion, InvalidCRS, OutOfDomain
\* answered as a 404; no other failure leaves the build or the run.
C4_ResultOr404 ==
    \A t \in Threads :
        pc[t] = "done" =>
            \/ response[t].status = 200 /\ Len(response[t].result) = 4
            \/ response[t].status = 404 /\ response[t].error \in ClientErrors

\* C5: for a catalogued EPSG identifier X, build(X, X) constructs no stage,
\* and the run of the pipeline it built answers the input 4-tuple unchanged.
C5_Identity ==
    \A t \in Threads :
        (/\ pc[t] = "done"
         /\ Built(t)
         /\ Catalogued(req[t].src)
         /\ Upper(req[t].src) = Upper(req[t].dst)
         /\ AuthOf(req[t].src) = EPSG) =>
            /\ built[t].res.calls = << >>
            /\ built[t].res.exc = "none" =>
                  /\ response[t].status = 200
                  /\ response[t].result = req[t].coord

\* C6: for every compatible catalogued pair the builder does not fail while it
\* selects the Area of Interest, and the box it hands to the hub stage is the
\* one of the shared region when the regions are equal (also when both are
\* Global) and of the non-Global side when exactly one side is Global.
C6_AreaSelected ==
    \A t \in Threads :
        (/\ Built(t)
         /\ Catalogued(req[t].src)
         /\ Catalogued(req[t].dst)
         /\ \/ RegionOf(req[t].src) = RegionOf(req[t].dst)
            \/ "Global" \in {RegionOf(req[t].src), RegionOf(req[t].dst)}) =>
            LET rs == RegionOf(req[t].src)
                rd == RegionOf(req[t].dst)
                side == IF rs = rd THEN rs ELSE IF rs = "Global" THEN rd ELSE rs
            IN  /\ built[t].res.exc # "KeyError"
                /\ built[t].res.epsg_pipeline # NoStage =>
                      /\ side \in DOMAIN AOI
                      /\ built[t].res.epsg_pipeline.args[3] = AOI[side]

\* C9: a run fails with OutOfDomain exactly when a component of the output of
\* the last executed stage is an infinity; otherwise it returns the normalized
\* 4-tuple of that output (and an error carries no result).
C9_OutOfDomain ==
    \A t \in Threads :
        (pc[t] = "done" /\ transformer[t].id > 0) =>
            LET n == Len(trace[t])
                lastInf == n > 0 /\ HasInf(trace[t][n].output)
            IN  /\ (response[t].error = "OutOfDomain") <=> lastInf
                /\ lastInf => response[t].status = 404 /\ response[t].result = << >>
                /\ ~lastInf =>
                      /\ response[t].status = 200
                      /\ n > 0
                      /\ response[t].result = _make_4d(trace[t][n].output)

\* the stages a pipeline holds, in the order transform tests them
PresentStages(o) ==
    (IF o.pre_pipeline # NoStage THEN <<"pre">> ELSE << >>)
    \o (IF o.epsg_pipeline # NoStage THEN <<"hub">> ELSE << >>)
    \o (IF o.post_pipeline # NoStage THEN <<"post">> ELSE << >>)

\* the 4-tuple whose leading components are those of o and whose others are unset
Padded(o) == [j \in 1..4 |-> IF j <= Len(o) THEN o[j] ELSE None]

\* C11: run applies the present stages in the order pre, hub, post, the first
\* to the request's coordinate and each later one to the normalized output of
\* the stage before it (missing trailing components unset); the result is the
\* normalized output of the last stage, and a component unset in the input
\* that no stage populated is unset in the result, never zero.
C11_StageOrder ==
    \A t \in Threads :
        transformer[t].id > 0 =>
            LET tr == trace[t]
                n == Len(tr)
                present == PresentStages(transformer[t])
            IN  /\ n <= Len(present)
                /\ \A i \in 1..n : tr[i].stage = present[i]
                /\ pc[t] \in {"l148", "done"} => n = Len(present)
                /\ \A i \in 1..n :
                     tr[i].input = (IF i = 1 THEN req[t].coord
                                    ELSE Padded(tr[i - 1].output))
                /\ response[t].status = 200 =>
                     /\ n > 0
                     /\ response[t].result = Padded(tr[n].output)
                     /\ \A j \in 3..4 :
                          (/\ req[t].coord[j] = None
                           /\ \A i \in 1..n : Len(tr[i].output) < j)
                          => response[t].result[j] = None

\* a two-component coordinate has gone through pre, hub and post, none of
\* which returned a height or a time, and the answer leaves both unset
C11_Witness ==
    \E t \in Threads :
        /\ pc[t] = "done"
        /\ response[t].status = 200
        /\ Len(trace[t]) = 3
        /\ \A i \in 1..3 : Len(trace[t][i].output) = 2
        /\ req[t].coord[3] = None
        /\ response[t].result[3] = None
        /\ response[t].result[4] = None

\* the last engine constructor called by the build of thread t was from_crs
\* and the build did not succeed: the engine refused the hub stage
HubRefused(t) ==
    /\ Built(t)
    /\ built[t].res.exc # "none"
    /\ Len(built[t].res.calls) > 0
    /\ built[t].res.calls[Len(built[t].res.calls)].kind = "from_crs"

\* C12: when the engine refuses the hub stage of a catalogued, compatible
\* pair, build fails with InvalidCRS and the fixed message, which does not
\* hold the engine's error text; the request is answered 404, no pipeline is
\* returned to it and none is stored for the pair.
C12_InvalidCRS ==
    \A t \in Threads :
        HubRefused(t) =>
            /\ built[t].res.exc = "ValueError"
            /\ built[t].res.error = "InvalidCRS"
            /\ built[t].res.msg = <<"Invalid CRS identifier">>
            /\ \A i \in DOMAIN built[t].res.msg :
                 built[t].res.msg[i] # EngineErrorText
            /\ built[t].id = 0
            /\ transformer[t] = NoObject
            /\ ~Stored(req[t].src, req[t].dst)
            /\ pc[t] = "done"
            /\ response[t].status = 404
            /\ response[t].error = "InvalidCRS"

\* the hub stage of DK:S34J to EPSG:25832 was refused after the pre-stage had
\* been constructed
C12_Witness ==
    \E t \in Threads :
        /\ HubRefused(t)
        /\ req[t].src = DK_S34J
        /\ req[t].dst = EPSG_25832
        /\ built[t].res.pre_pipeline # NoStage
        /\ Len(built[t].res.calls) = 2
        /\ response[t].status = 404

\* the build of thread t's request has failed and the request is over
BuildFailed(t) == pc[t] = "done" /\ Built(t) /\ built[t].res.exc # "none"

\* C13: a create call whose build fails leaves the cache mapping as it was
\* before the call: the first call of the process leaves it empty, and no call
\* adds a key for its src that holds no pipeline.
C13_FailureLeavesCache ==
    \A t \in Threads :
        BuildFailed(t) =>
            /\ nreq = 1 => transformers = EmptyDict
            /\ \A s \in DOMAIN transformers : transformers[s] # EmptyDict

\* the engine's CRS-pair constructor calls made by the build of thread t
CrsPairCalls(t) ==
    {i \in DOMAIN built[t].res.calls : built[t].res.calls[i].kind = "from_crs"}

\* C14: whenever the hub stage is built, both identifiers handed to the
\* engine's CRS-pair constructor have the EPSG authority: a non-EPSG source has
\* been replaced by its fallback and a non-EPSG destination by its hub
\* substitute (DK by EPSG:4258, GL by EPSG:4909).
C14_HubIdsEpsg ==
    \A t \in Threads :
        Built(t) =>
            \A i \in CrsPairCalls(t) :
                LET call == built[t].res.calls[i] IN
                /\ SplitFirst(call.args[1]) = EPSG
                /\ SplitFirst(call.args[2]) = EPSG
                /\ AuthOf(req[t].dst) = DK => call.args[2] = EPSG_4258
                /\ AuthOf(req[t].dst) = GL => call.args[2] = EPSG_4909
                /\ AuthOf(req[t].dst) = EPSG => call.args[2] = Upper(req[t].dst)
                /\ AuthOf(req[t].src) = EPSG => call.args[1] = Upper(req[t].src)

\* C15: requests whose identifiers differ only in letter case denote one
\* pair: pipelines stored under keys that are equal in upper case are the same
\* pipeline, so no more pipelines are stored than there are upper-case pairs.
C15_CaseInsensitive ==
    \A s1, s2 \in DOMAIN transformers :
        \A d1 \in DOMAIN transformers[s1], d2 \in DOMAIN transformers[s2] :
            (Upper(s1) = Upper(s2) /\ Upper(d1) = Upper(d2)) =>
                transformers[s1][d1].id = transformers[s2][d2].id

====
